---- MODULE Spec2Model ----
(***************************************************************************)
(* Model of the weather MCP server (SiddiqshaA/weather_server).            *)
(*                                                                         *)
(* The repository holds four copies of the tool handlers                   *)
(*   weather/weather.py, weather/app.py, server.py, weather.py             *)
(* and a launcher, weather/run_mcp.py, that registers the handlers of      *)
(* weather/weather.py on a fresh server.  One behaviour of the model is    *)
(* one process started from one of these five entry points: it boots,      *)
(* registers its tools, and then serves tool invocations one after the     *)
(* other.  An invocation issues one or two fetches (make_request); the     *)
(* upstream's answer to each fetch is chosen nondeterministically.         *)
(* A second specification, SpecConcurrent, lets the event loop of the      *)
(* process run several invocations side by side, over a part of the        *)
(* inputs: each one is a task with its own frame, and the fetch            *)
(* completions and resumptions of the tasks interleave freely.             *)
(*                                                                         *)
(* Python values.  A JSON value is a tagged record (Null, Num, Str, Arr,   *)
(* Obj); Python's None is Null.  A Python string is a sequence of          *)
(* one-character strings.  A text (what a handler returns) is a sequence   *)
(* of pieces: a piece is either a literal fragment of the handler's        *)
(* f-string template, or one character of an interpolated value; every     *)
(* newline is a piece of its own.                                          *)
(***************************************************************************)
EXTENDS Integers, Sequences, FiniteSets, TLC

VARIABLES entry,     \* the entry point this process was started from
          tools,     \* names registered on the FastMCP object run by the process
          pc,        \* "boot", "idle", "fetching", "done"
          tool,      \* the tool being invoked
          args,      \* its arguments
          pending,   \* the request in flight (a record), or NoRequest
          fetches,   \* the requests issued by the current invocation, in order
          outcomes,  \* what the upstream did with each of them, in order
          rets,      \* what make_request returned for them, in order
          result,    \* how the invocation ended: a returned text or a raised exception
          stdout,    \* lines written to stdout since boot / since the invocation began
          stderr,    \* lines written to stderr since boot / since the invocation began
          tasks      \* the invocations the event loop runs side by side, one per slot

vars == <<entry, tools, pc, tool, args, pending, fetches, outcomes, rets, result,
          stdout, stderr, tasks>>

----------------------------------------------------------------------------
(* Bounds of the model *)

MaxFeatures == 2      \* longest upstream `features` list
MaxDays == 2          \* longest upstream `daily.time` / probability array
NumSlots == 2         \* invocations the event loop runs side by side

----------------------------------------------------------------------------
(* Python strings *)

LowerOf == [c \in {"A", "B"} |-> IF c = "A" THEN "a" ELSE "b"]
UpperOf == [c \in {"a", "b"} |-> IF c = "a" THEN "A" ELSE "B"]

IsCased(c) == c \in DOMAIN LowerOf \/ c \in DOMAIN UpperOf

lower_char(c) == IF c \in DOMAIN LowerOf THEN LowerOf[c] ELSE c
upper_char(c) == IF c \in DOMAIN UpperOf THEN UpperOf[c] ELSE c

\* str.lower(), str.upper()
lower(s) == [i \in 1..Len(s) |-> lower_char(s[i])]
upper(s) == [i \in 1..Len(s) |-> upper_char(s[i])]

\* str.title(): a cased character is upper-cased when it starts a word
\* (the character before it is not cased), lower-cased otherwise
title(s) ==
    [i \in 1..Len(s) |->
        IF i = 1 \/ ~IsCased(s[i - 1]) THEN upper_char(s[i]) ELSE lower_char(s[i])]

\* Python's `needle in hay` on strings
str_in(needle, hay) ==
    \E i \in 0..(Len(hay) - Len(needle)) :
        SubSeq(hay, i + 1, i + Len(needle)) = needle

\* "sep".join(parts), parts a sequence of texts
RECURSIVE join(_, _)
join(sep, parts) ==
    IF parts = <<>> THEN <<>>
    ELSE IF Len(parts) = 1 THEN parts[1]
    ELSE parts[1] \o sep \o join(sep, Tail(parts))

----------------------------------------------------------------------------
(* JSON / Python values *)

Null == [t |-> "null"]
Num(n) == [t |-> "num", n |-> n]
Str(s) == [t |-> "str", s |-> s]
Arr(a) == [t |-> "arr", a |-> a]
Obj(f) == [t |-> "obj", f |-> f]
EmptyObj == Obj([k \in {} |-> Null])

\* Python truthiness (`not x` is ~truthy(x))
truthy(v) ==
    CASE v.t = "null" -> FALSE
      [] v.t = "num" -> v.n # 0
      [] v.t = "str" -> v.s # <<>>
      [] v.t = "arr" -> v.a # <<>>
      [] v.t = "obj" -> DOMAIN v.f # {}

\* `key in d` for a dict d
has_key(d, key) == d.t = "obj" /\ key \in DOMAIN d.f

\* decimal digits of a natural number
RECURSIVE digits(_)
digits(n) ==
    IF n < 10 THEN <<CHOOSE d \in {"0", "1", "2", "3", "4", "5", "6", "7", "8", "9"} :
                        d = ToString(n)>>
    ELSE digits(n \div 10) \o digits(n % 10)

\* how an f-string renders a value: str(v)
format(v) ==
    CASE v.t = "null" -> <<"N", "o", "n", "e">>
      [] v.t = "num" -> IF v.n < 0 THEN <<"-">> \o digits(0 - v.n) ELSE digits(v.n)
      [] v.t = "str" -> v.s
      [] OTHER -> <<"<repr>">>

----------------------------------------------------------------------------
(* Outcomes of a handler step *)

Returns(text) == [kind |-> "return", text |-> text]
Raises(exc) == [kind |-> "raise", exc |-> exc]
Fetch(req) == [kind |-> "fetch", req |-> req]
NoResult == [kind |-> "none"]
NoRequest == [url |-> <<>>, params |-> EmptyObj]

\* the result of an expression that may raise
Ok(v) == [ok |-> TRUE, val |-> v, exc |-> ""]
Err(e) == [ok |-> FALSE, val |-> Null, exc |-> e]

\* d[key] with a string key
getitem(d, key) ==
    IF d.t = "obj"
    THEN IF key \in DOMAIN d.f THEN Ok(d.f[key]) ELSE Err("KeyError")
    ELSE Err("TypeError")

\* l[i] with an integer index (0-based, as in Python)
index(l, i) ==
    IF l.t = "arr"
    THEN IF i + 1 \in 1..Len(l.a) THEN Ok(l.a[i + 1]) ELSE Err("IndexError")
    ELSE IF l.t = "obj" THEN Err("KeyError")
    ELSE Err("TypeError")

\* d.get(key, default)
dict_get(d, key, default) ==
    IF d.t = "obj"
    THEN Ok(IF key \in DOMAIN d.f THEN d.f[key] ELSE default)
    ELSE Err("AttributeError")

\* s.lower() on a value that may not be a string
value_lower(v) == IF v.t = "str" THEN Ok(Str(lower(v.s))) ELSE Err("AttributeError")

\* v[:n] on a value that may not be a string
slice_to(v, n) ==
    IF v.t = "str" THEN Ok(Str(SubSeq(v.s, 1, IF Len(v.s) < n THEN Len(v.s) ELSE n)))
    ELSE Err("TypeError")

----------------------------------------------------------------------------
(* The handler modules and the entry points *)

WEATHER == "weather/weather.py"
APP == "weather/app.py"
SERVER == "server.py"
ROOT == "weather.py"
RUN_MCP == "weather/run_mcp.py"

EntryPoints == {WEATHER, APP, SERVER, ROOT, RUN_MCP}

\* the module whose handlers the entry point serves: run_mcp.py imports the
\* handlers of the weather.py next to it
HandlerModule(e) == IF e = RUN_MCP THEN WEATHER ELSE e

----------------------------------------------------------------------------
(* Constants of the source *)

NWS_API_BASE == "https://api.weather.gov"
OPEN_METEO_BASE == <<"https://api.open-meteo.com/v1/forecast">>
AIR_QUALITY_BASE == <<"https://air-quality-api.open-meteo.com/v1/air-quality">>
geocode_url == <<"https://geocoding-api.open-meteo.com/v1/search">>

NL == "\n"
NA == Str(<<"N/A">>)

----------------------------------------------------------------------------
(* The fetcher *)

TransportFailures == {"timeout", "status", "network", "badjson"}

Failure(kind) == [kind |-> kind, body |-> Null]
Response(body) == [kind |-> "ok", body |-> body]

\* the diagnostic line printed by the except branch
Diagnostic(url, outcome) == [src |-> "make_request", url |-> url, err |-> outcome.kind]

\* where print(...) of the except branch goes: weather/weather.py prints
\* without file=, the other three pass file=sys.stderr
DiagnosticStream(m) == IF m = WEATHER THEN "stdout" ELSE "stderr"

\* make_request as it would be with `except httpx.HTTPError`: the ValueError of
\* response.json() on an unparsable body is not caught and leaves the fetcher
make_request_narrow_except(m, url, outcome) ==
    IF outcome.kind = "ok"
    THEN [raised |-> FALSE, exc |-> "", val |-> outcome.body, stdout |-> <<>>, stderr |-> <<>>]
    ELSE IF outcome.kind = "badjson"
    THEN [raised |-> TRUE, exc |-> "ValueError", val |-> Null, stdout |-> <<>>, stderr |-> <<>>]
    ELSE [raised |-> FALSE, exc |-> "", val |-> Null,
          stdout |-> IF DiagnosticStream(m) = "stdout"
                     THEN <<Diagnostic(url, outcome)>> ELSE <<>>,
          stderr |-> IF DiagnosticStream(m) = "stderr"
                     THEN <<Diagnostic(url, outcome)>> ELSE <<>>]

\* make_request(url, params): client.get raises on a timeout or a network
\* error, raise_for_status on a non-2xx status, response.json() on an
\* unparsable body; `except Exception` catches them all, prints and returns None
make_request(m, url, outcome) ==
    IF outcome.kind = "ok"
    THEN [raised |-> FALSE, exc |-> "", val |-> outcome.body, stdout |-> <<>>, stderr |-> <<>>]
    ELSE [raised |-> FALSE, exc |-> "", val |-> Null,
          stdout |-> IF DiagnosticStream(m) = "stdout"
                     THEN <<Diagnostic(url, outcome)>> ELSE <<>>,
          stderr |-> IF DiagnosticStream(m) = "stderr"
                     THEN <<Diagnostic(url, outcome)>> ELSE <<>>]

----------------------------------------------------------------------------
(* get_weather_by_city *)

UnableToFindLocation(city) == <<"Unable to find location for '">> \o city \o <<"'.">>
UnableToFetchWeather(city) == <<"Unable to fetch current weather for ">> \o city \o <<".">>

DegreeUnit(m) == IF m = WEATHER THEN "°C" ELSE " C"

WeatherReport(m, city, current) ==
    <<NL, "Current Weather in ">> \o title(city) \o <<":", NL>>
    \o <<"Temperature: ">> \o format(dict_get(current, "temperature_2m", NA).val)
    \o <<DegreeUnit(m), NL>>
    \o <<"Wind Speed: ">> \o format(dict_get(current, "wind_speed_10m", NA).val)
    \o <<" m/s", NL>>
    \o <<"Precipitation: ">> \o format(dict_get(current, "precipitation", NA).val)
    \o <<" mm", NL>>

GeocodeRequest(city) ==
    [url |-> geocode_url, params |-> Obj([name |-> Str(city), count |-> Num(1)])]

\* the forecast request with the two coordinates in each other's place
CurrentWeatherRequest_swapped(lat, lon) ==
    [url |-> OPEN_METEO_BASE,
     params |-> Obj([latitude |-> lon, longitude |-> lat,
                     current |-> Arr(<<Str(<<"temperature_2m">>), Str(<<"wind_speed_10m">>),
                                       Str(<<"precipitation">>)>>)])]

CurrentWeatherRequest(lat, lon) ==
    [url |-> OPEN_METEO_BASE,
     params |-> Obj([latitude |-> lat, longitude |-> lon,
                     current |-> Arr(<<Str(<<"temperature_2m">>), Str(<<"wind_speed_10m">>),
                                       Str(<<"precipitation">>)>>)])]

\* the test of the first `if` without its third disjunct
no_location_unless_empty(geo_data) ==
    \/ ~truthy(geo_data)
    \/ ~has_key(geo_data, "results")

\* the test of the first `if`: the geocoding gave no location
no_location(geo_data) ==
    \/ ~truthy(geo_data)
    \/ ~has_key(geo_data, "results")
    \/ ~truthy(geo_data.f.results)

\* the handler from its first line up to its next await or its end, given the
\* values make_request returned so far
get_weather_by_city(m, a, r) ==
    IF r = <<>> THEN Fetch(GeocodeRequest(a.city))
    ELSE IF r[Len(r)].raised THEN Raises(r[Len(r)].exc)
    ELSE IF no_location(r[1].val) THEN Returns(UnableToFindLocation(a.city))
    ELSE
      LET first == index(r[1].val.f.results, 0)
          lat == IF first.ok THEN getitem(first.val, "latitude") ELSE first
          lon == IF first.ok THEN getitem(first.val, "longitude") ELSE first
      IN  IF ~lat.ok THEN Raises(lat.exc)
          ELSE IF ~lon.ok THEN Raises(lon.exc)
          ELSE IF Len(r) = 1 THEN Fetch(CurrentWeatherRequest(lat.val, lon.val))
          ELSE LET weather_data == r[2].val IN
               IF ~truthy(weather_data) \/ ~has_key(weather_data, "current")
               THEN Returns(UnableToFetchWeather(a.city))
               ELSE LET current == weather_data.f.current IN
                    IF ~dict_get(current, "temperature_2m", NA).ok
                    THEN Raises(dict_get(current, "temperature_2m", NA).exc)
                    ELSE Returns(WeatherReport(m, a.city, current))

----------------------------------------------------------------------------
(* get_air_quality *)

UnableToFetchAirQuality == <<"Unable to fetch air quality data.">>

MicroUnit(m) == IF m = WEATHER THEN " µg/m³" ELSE " μg/m³"

\* the five metric lines, in the order of the template
AirQualityFields == <<"pm2_5", "pm10", "carbon_monoxide", "nitrogen_dioxide", "ozone">>
AirQualityLabels == <<"PM2.5: ", "PM10: ", "CO: ", "NO₂: ", "O₃: ">>

AirQualityRequest(lat, lon) ==
    [url |-> AIR_QUALITY_BASE,
     params |-> Obj([latitude |-> Num(lat), longitude |-> Num(lon),
                     current |-> Arr(<<Str(<<"pm10">>), Str(<<"pm2_5">>),
                                       Str(<<"carbon_monoxide">>),
                                       Str(<<"nitrogen_dioxide">>), Str(<<"ozone">>)>>)])]

\* the line as it would be with aq.get(key), the default left out
AirQualityLine_without_default(m, aq, i) ==
    <<AirQualityLabels[i]>> \o format(dict_get(aq, AirQualityFields[i], Null).val)
    \o <<MicroUnit(m), NL>>

AirQualityLine(m, aq, i) ==
    <<AirQualityLabels[i]>> \o format(dict_get(aq, AirQualityFields[i], NA).val)
    \o <<MicroUnit(m), NL>>

AirQualityReport(m, aq) ==
    <<NL, "Air Quality Data:", NL>>
    \o AirQualityLine(m, aq, 1) \o AirQualityLine(m, aq, 2) \o AirQualityLine(m, aq, 3)
    \o AirQualityLine(m, aq, 4) \o AirQualityLine(m, aq, 5)

get_air_quality(m, a, r) ==
    IF r = <<>> THEN Fetch(AirQualityRequest(a.latitude, a.longitude))
    ELSE IF r[Len(r)].raised THEN Raises(r[Len(r)].exc)
    ELSE LET data == r[1].val IN
         IF ~truthy(data) \/ ~has_key(data, "current")
         THEN Returns(UnableToFetchAirQuality)
         ELSE LET aq == data.f.current IN
              IF ~dict_get(aq, "pm2_5", NA).ok THEN Raises(dict_get(aq, "pm2_5", NA).exc)
              ELSE Returns(AirQualityReport(m, aq))

----------------------------------------------------------------------------
(* get_precipitation_chance *)

UnableToFetchPrecipitation(m) ==
    IF m = WEATHER THEN <<"Unable to fetch precipitation data.">>
    ELSE <<"Unable to fetch precipitation forecast.">>

ForecastDays(m) == IF m = WEATHER THEN 3 ELSE 7

PrecipitationRequest(m, lat, lon) ==
    [url |-> OPEN_METEO_BASE,
     params |->
        IF m = WEATHER
        THEN Obj([latitude |-> Num(lat), longitude |-> Num(lon),
                  daily |-> Str(<<"precipitation_probability_max">>),
                  forecast_days |-> Num(ForecastDays(m)),
                  timezone |-> Str(<<"auto">>)])
        ELSE Obj([latitude |-> Num(lat), longitude |-> Num(lon),
                  daily |-> Arr(<<Str(<<"precipitation_probability_max">>)>>),
                  forecast_days |-> Num(ForecastDays(m))])]

\* f"{date}: {chance}% chance of precipitation"
PrecipitationLine(date, chance) ==
    format(date) \o <<": ">> \o format(chance) \o <<"% chance of precipitation">>

\* the list `response` kept at module level: it still holds what an earlier
\* invocation appended to it
PrecipitationHeader_module_level(m) ==
    LET earlier == {i \in DOMAIN tasks : /\ tasks[i].pc = "done"
                                         /\ tasks[i].tool = "get_precipitation_chance"
                                         /\ tasks[i].result.kind = "return"}
    IN  IF earlier # {}
        THEN <<tasks[CHOOSE i \in earlier : \A j \in earlier : i <= j].result.text>>
        ELSE IF m = WEATHER THEN <<>> ELSE <<(<<"Precipitation Forecast:">>)>>

\* the list `response` starts empty in weather/weather.py and with a header
\* line in the other three modules
PrecipitationHeader(m) == IF m = WEATHER THEN <<>> ELSE <<(<<"Precipitation Forecast:">>)>>

\* the expression that yields the `time` list
precipitation_time(m, daily) ==
    IF m = WEATHER THEN getitem(daily, "time") ELSE dict_get(daily, "time", Arr(<<>>))

\* the expression that yields the probability list, evaluated in each iteration
precipitation_probabilities(m, daily) ==
    IF m = WEATHER THEN getitem(daily, "precipitation_probability_max")
    ELSE dict_get(daily, "precipitation_probability_max", Arr(<<>>))

\* the for loop: the lines appended, or the exception of the first iteration
\* that raises
precipitation_loop(time, probs) ==
    IF time.t # "arr" THEN Err("TypeError")
    ELSE IF time.a = <<>> THEN Ok(<<>>)
    ELSE IF ~probs.ok THEN Err(probs.exc)
    ELSE LET bad == {i \in 0..(Len(time.a) - 1) : ~index(probs.val, i).ok} IN
         IF bad # {}
         THEN Err(index(probs.val, CHOOSE i \in bad : \A j \in bad : i <= j).exc)
         ELSE Ok([i \in 1..Len(time.a) |->
                    PrecipitationLine(time.a[i], index(probs.val, i - 1).val)])

get_precipitation_chance(m, a, r) ==
    IF r = <<>> THEN Fetch(PrecipitationRequest(m, a.latitude, a.longitude))
    ELSE IF r[Len(r)].raised THEN Raises(r[Len(r)].exc)
    ELSE LET data == r[1].val IN
         IF ~truthy(data) \/ ~has_key(data, "daily")
         THEN Returns(UnableToFetchPrecipitation(m))
         ELSE LET daily == data.f.daily
                  time == precipitation_time(m, daily)
              IN  IF ~time.ok THEN Raises(time.exc)
                  ELSE LET loop == precipitation_loop(
                                       time.val, precipitation_probabilities(m, daily))
                       IN  IF ~loop.ok THEN Raises(loop.exc)
                           ELSE Returns(join(<<NL>>, PrecipitationHeader(m) \o loop.val))

----------------------------------------------------------------------------
(* get_alerts_by_type *)

DescriptionLimit == 300

AlertSeparator == <<NL, "---", NL>>

Unknown == Str(<<"Unknown">>)
NoDescription == Str(<<"No description available">>)
NoInstructions == Str(<<"No specific instructions provided">>)

\* the state as it appears in the URL: weather/weather.py upper-cases it there
alerts_url_state(m, state) == IF m = WEATHER THEN upper(state) ELSE state

AlertsRequest(m, state) ==
    [url |-> <<NWS_API_BASE, "/alerts/active/area/">> \o alerts_url_state(m, state),
     params |-> Null]

\* f"Unable to fetch alerts for {state}."
UnableToFetchAlerts(m, state) == <<"Unable to fetch alerts for ">> \o state \o <<".">>

\* the state in the "No active" message: weather/weather.py upper-cases it there
no_alerts_state(m, state) == IF m = WEATHER THEN upper(state) ELSE state

\* the "no match" branch answering with the text of the failure branch
NoActiveAlerts_as_failure(m, state, event_type) == UnableToFetchAlerts(m, state)

NoActiveAlerts(m, state, event_type) ==
    <<"No active ">> \o event_type \o <<" alerts for ">> \o no_alerts_state(m, state) \o <<".">>

\* the filter: event_type.lower() in <event>.lower()
alert_matches(event_type, event) ==
    LET low == value_lower(event) IN
    IF low.ok THEN Ok(str_in(lower(event_type), low.val.s)) ELSE Err(low.exc)

\* the block of one matching feature in weather/weather.py
alert_block_weather(props) ==
    Ok(<<NL, "Event: ">> \o format(dict_get(props, "event", Unknown).val)
       \o <<NL, "Area: ">> \o format(dict_get(props, "areaDesc", Unknown).val)
       \o <<NL, "Severity: ">> \o format(dict_get(props, "severity", Unknown).val)
       \o <<NL, "Description: ">> \o format(dict_get(props, "description", NoDescription).val)
       \o <<NL, "Instructions: ">> \o format(dict_get(props, "instruction", NoInstructions).val)
       \o <<NL>>)

\* the block of one matching feature in weather/app.py and weather.py: the
\* description is cut to DescriptionLimit characters and "..." is appended
alert_block_app(props) ==
    LET description == slice_to(dict_get(props, "description", NoDescription).val,
                                DescriptionLimit)
    IN  IF ~description.ok THEN Err(description.exc)
        ELSE Ok(<<NL, "Event: ">> \o format(dict_get(props, "event", Str(<<>>)).val)
                \o <<NL, "Area: ">> \o format(dict_get(props, "areaDesc", Unknown).val)
                \o <<NL, "Severity: ">> \o format(dict_get(props, "severity", Unknown).val)
                \o <<NL, "Description: ">> \o format(description.val) \o <<"...">>
                \o <<NL>>)

alert_block(m, props) == IF m = WEATHER THEN alert_block_weather(props) ELSE alert_block_app(props)

\* what one feature contributes to `filtered`: nothing, one block, or an exception
alert_of_feature(m, event_type, feature) ==
    LET props == getitem(feature, "properties")
        event == IF props.ok THEN dict_get(props.val, "event", Str(<<>>)) ELSE props
        hit == IF event.ok THEN alert_matches(event_type, event.val) ELSE event
    IN  IF ~hit.ok THEN Err(hit.exc)
        ELSE IF ~hit.val THEN Ok(<<>>)
        ELSE LET block == alert_block(m, props.val) IN
             IF block.ok THEN Ok(<<block.val>>) ELSE block

\* the loop over data["features"]: the list `filtered`, or the exception of the
\* first feature that raises
RECURSIVE filter_alerts(_, _, _)
filter_alerts(m, event_type, features) ==
    IF features = <<>> THEN Ok(<<>>)
    ELSE LET head == alert_of_feature(m, event_type, features[1]) IN
         IF ~head.ok THEN head
         ELSE LET rest == filter_alerts(m, event_type, Tail(features)) IN
              IF ~rest.ok THEN rest ELSE Ok(head.val \o rest.val)

get_alerts_by_type(m, a, r) ==
    IF r = <<>> THEN Fetch(AlertsRequest(m, a.state))
    ELSE IF r[Len(r)].raised THEN Raises(r[Len(r)].exc)
    ELSE LET data == r[1].val IN
         IF ~truthy(data) \/ ~has_key(data, "features")
         THEN Returns(UnableToFetchAlerts(m, a.state))
         ELSE IF data.f.features.t # "arr" THEN Raises("TypeError")
         ELSE LET filtered == filter_alerts(m, a.event_type, data.f.features.a) IN
              IF ~filtered.ok THEN Raises(filtered.exc)
              ELSE IF filtered.val = <<>>
                   THEN Returns(NoActiveAlerts(m, a.state, a.event_type))
                   ELSE Returns(join(AlertSeparator, filtered.val))

----------------------------------------------------------------------------
(* Tool registration *)

AllTools == {"get_weather_by_city", "get_precipitation_chance", "get_air_quality",
             "get_alerts_by_type"}

\* the functions under @mcp.tool() in each module; run_mcp.py calls
\* mcp.add_tool on the four functions it imports
RegisteredTools(e) ==
    CASE e = WEATHER -> {"get_weather_by_city", "get_alerts_by_type",
                         "get_precipitation_chance", "get_air_quality"}
      [] e = APP -> {"get_weather_by_city", "get_alerts_by_type",
                     "get_precipitation_chance", "get_air_quality"}
      [] e = ROOT -> {"get_weather_by_city", "get_alerts_by_type",
                      "get_precipitation_chance", "get_air_quality"}
      [] e = SERVER -> {"get_weather_by_city", "get_precipitation_chance",
                        "get_air_quality"}
      [] e = RUN_MCP -> {"get_weather_by_city", "get_alerts_by_type",
                         "get_precipitation_chance", "get_air_quality"}

StartupLine(text) == [src |-> "startup", url |-> <<text>>, err |-> ""]

\* what the entry point prints before mcp.run: run_mcp.py prints two lines
\* with a bare print(), everything else goes to stderr
StartupStdout(e) ==
    IF e = RUN_MCP
    THEN <<StartupLine("[Weather MCP] Starting server in a separate process..."),
           StartupLine("[Runner] Starting MCP server with Python")>>
    ELSE <<>>

StartupStderr(e) ==
    CASE e = WEATHER -> <<StartupLine("[MCP Weather] Server starting... Listening on stdio")>>
      [] e = APP -> <<StartupLine("[Weather MCP] Server starting...")>>
      [] e = SERVER -> <<StartupLine("Weather MCP Server initializing...")>>
      [] e = ROOT -> <<StartupLine("[ROOT] Initializing MCP server...")>>
      [] e = RUN_MCP -> <<StartupLine("[Weather MCP] Server started successfully")>>

----------------------------------------------------------------------------
(* Dispatch *)

\* the handler named `t` of module m, run from its start on the values
\* make_request has returned so far, up to its next await or its end
Handler(m, t, a, r) ==
    CASE t = "get_weather_by_city" -> get_weather_by_city(m, a, r)
      [] t = "get_precipitation_chance" -> get_precipitation_chance(m, a, r)
      [] t = "get_air_quality" -> get_air_quality(m, a, r)
      [] t = "get_alerts_by_type" -> get_alerts_by_type(m, a, r)

----------------------------------------------------------------------------
(* Inputs: arguments of the host and answers of the upstream *)

Cities == {<<"a", "b">>, <<"A", " ", "b">>}
Coordinates == {[latitude |-> 13, longitude |-> 80], [latitude |-> 0, longitude |-> 151]}
States == {<<"a", "b">>, <<"A", "B">>, <<"A", "b">>}
EventTypes == {<<"b", "A">>, <<"B">>, <<"a", "a">>, <<>>}

NoArgs == [k \in {} |-> Null]

ArgsOf(t) ==
    CASE t = "get_weather_by_city" -> {[city |-> c] : c \in Cities}
      [] t = "get_precipitation_chance" -> Coordinates
      [] t = "get_air_quality" -> Coordinates
      [] t = "get_alerts_by_type" ->
            {[state |-> s, event_type |-> e] : s \in States, e \in EventTypes}

\* sequences over S of length at most n
SeqsUpTo(S, n) == UNION {[1..k -> S] : k \in 0..n}

GeocodeBodies ==
    { EmptyObj,
      Obj([generationtime_ms |-> Num(1)]),
      Obj([results |-> Arr(<<>>)]),
      Obj([results |-> Null]),
      Obj([results |-> Arr(<<Obj([latitude |-> Num(13), longitude |-> Num(80)])>>)]),
      Obj([results |-> Arr(<<Obj([latitude |-> Num(0), longitude |-> Num(151)]),
                             Obj([latitude |-> Num(13), longitude |-> Num(80)])>>)]),
      Obj([results |-> Arr(<<Obj([latitude |-> Num(13)])>>)]),
      Obj([results |-> Arr(<<Obj([name |-> Str(<<"a", "b">>)])>>)]) }

CurrentWeatherBodies ==
    { EmptyObj,
      Obj([latitude |-> Num(13)]),
      Obj([current |-> EmptyObj]),
      Obj([current |-> Obj([temperature_2m |-> Num(31)])]),
      Obj([current |-> Obj([temperature_2m |-> Num(0 - 4), wind_speed_10m |-> Num(12),
                            precipitation |-> Null])]) }

\* a `current` object holding the fields of `present`; field number i holds
\* the value 10 + i, or null when it is in `nulls`
AirQualityCurrent(present, nulls) ==
    Obj([k \in {AirQualityFields[i] : i \in present} |->
            LET i == CHOOSE j \in present : AirQualityFields[j] = k IN
            IF i \in nulls THEN Null ELSE Num(10 + i)])

AirQualityBodies ==
    { EmptyObj, Obj([latitude |-> Num(13)]) }
    \cup { Obj([current |-> AirQualityCurrent(present, {})]) : present \in SUBSET (1..5) }
    \cup { Obj([current |-> AirQualityCurrent({1, 3}, {1})]) }

Date(i) == Str(<<"d">> \o digits(i))
Probability(i) == IF i = 2 THEN Null ELSE Num(10 * i)

DailyObjects ==
    { Obj([time |-> Arr([i \in 1..nt |-> Date(i)]),
           precipitation_probability_max |-> Arr([i \in 1..np |-> Probability(i)])]) :
        nt \in 0..MaxDays, np \in 0..MaxDays }
    \cup { Obj([time |-> Arr([i \in 1..nt |-> Date(i)])]) : nt \in 0..MaxDays }
    \cup { Obj([precipitation_probability_max |-> Arr(<<Probability(1)>>)]) }

PrecipitationBodies ==
    { EmptyObj, Obj([latitude |-> Num(13)]) } \cup { Obj([daily |-> d]) : d \in DailyObjects }

\* a description one character longer than the limit of weather/app.py
LongDescription ==
    [i \in 1..(DescriptionLimit + 1) |-> IF i <= DescriptionLimit THEN "a" ELSE "b"]

Features ==
    { Obj([properties |-> Obj([event |-> Str(<<"A", "b", "a">>), areaDesc |-> Str(<<"a">>),
                               severity |-> Str(<<"b">>),
                               description |-> Str(<<"a", "b">>),
                               instruction |-> Str(<<"A">>)])]),
      Obj([properties |-> Obj([event |-> Str(<<"b", "b">>)])]),
      Obj([properties |-> Obj([areaDesc |-> Str(<<"a">>)])]),
      Obj([id |-> Str(<<"a">>)]),
      Obj([properties |-> Obj([event |-> Null])]),
      Obj([properties |-> Obj([event |-> Str(<<"B">>), description |-> Null])]),
      Obj([properties |-> Obj([event |-> Str(<<"b">>),
                               description |-> Str(LongDescription)])]) }

AlertsBodies ==
    { EmptyObj, Obj([title |-> Str(<<"a">>)]) }
    \cup { Obj([features |-> Arr(fs)]) : fs \in SeqsUpTo(Features, MaxFeatures) }

\* the bodies the endpoint of a request can answer with
BodiesOf(t, n) ==
    CASE t = "get_weather_by_city" -> IF n = 1 THEN GeocodeBodies ELSE CurrentWeatherBodies
      [] t = "get_precipitation_chance" -> PrecipitationBodies
      [] t = "get_air_quality" -> AirQualityBodies
      [] t = "get_alerts_by_type" -> AlertsBodies

\* what can happen to the n-th request of an invocation of tool t
Outcomes(t, n) ==
    IF t \in AllTools
    THEN {Failure(k) : k \in TransportFailures} \cup {Response(b) : b \in BodiesOf(t, n)}
    ELSE {}

\* The event loop can hold several invocations at once; each one is a task
\* with its own frame.  The inputs of the tasks are a part of the pools above.
Slots == 1..NumSlots

IdleTask ==
    [pc |-> "idle", tool |-> "none", args |-> NoArgs, fetches |-> <<>>,
     outcomes |-> <<>>, rets |-> <<>>, result |-> NoResult]

TaskArgsOf(t) ==
    CASE t = "get_weather_by_city" -> {[city |-> <<"a", "b">>]}
      [] t = "get_precipitation_chance" -> {[latitude |-> 13, longitude |-> 80]}
      [] t = "get_air_quality" -> {[latitude |-> 13, longitude |-> 80]}
      [] t = "get_alerts_by_type" ->
            {[state |-> <<"A", "b">>, event_type |-> e] : e \in {<<"B">>, <<"a", "a">>}}

TaskBodiesOf(t, n) ==
    CASE t = "get_weather_by_city" /\ n = 1 ->
            {Obj([results |-> Arr(<<Obj([latitude |-> Num(13), longitude |-> Num(80)])>>)])}
      [] t = "get_weather_by_city" /\ n = 2 ->
            {Obj([current |-> Obj([temperature_2m |-> Num(0 - 4),
                                   wind_speed_10m |-> Num(12),
                                   precipitation |-> Null])])}
      [] t = "get_precipitation_chance" /\ n = 1 ->
            {Obj([daily |-> Obj([time |-> Arr(<<Date(1)>>),
                                 precipitation_probability_max |->
                                     Arr(<<Probability(1)>>)])])}
      [] t = "get_air_quality" /\ n = 1 ->
            {Obj([current |-> AirQualityCurrent({1, 3}, {})])}
      [] t = "get_alerts_by_type" /\ n = 1 ->
            {Obj([features |-> Arr(<<
                Obj([properties |-> Obj([event |-> Str(<<"A", "b", "a">>),
                                         areaDesc |-> Str(<<"a">>),
                                         severity |-> Str(<<"b">>),
                                         description |-> Str(<<"a", "b">>),
                                         instruction |-> Str(<<"A">>)])]),
                Obj([properties |-> Obj([event |-> Str(<<"b", "b">>)])])>>)])}
      [] OTHER -> {}

\* what can happen to the n-th request of a task invoking tool t
TaskOutcomes(t, n) ==
    IF TaskBodiesOf(t, n) = {} THEN {}
    ELSE {Failure("timeout")} \cup {Response(b) : b \in TaskBodiesOf(t, n)}

----------------------------------------------------------------------------
(* The state machine *)

Init ==
    /\ entry \in EntryPoints
    /\ tools = {}
    /\ pc = "boot"
    /\ tool = "none"
    /\ args = NoArgs
    /\ pending = NoRequest
    /\ fetches = <<>>
    /\ outcomes = <<>>
    /\ rets = <<>>
    /\ result = NoResult
    /\ stdout = <<>>
    /\ stderr = <<>>
    /\ tasks = [i \in Slots |-> IdleTask]

\* the module is loaded: the tools are registered and the server starts
Startup ==
    /\ pc = "boot"
    /\ pc' = "idle"
    /\ tools' = RegisteredTools(entry)
    /\ stdout' = StartupStdout(entry)
    /\ stderr' = StartupStderr(entry)
    /\ UNCHANGED <<entry, tool, args, pending, fetches, outcomes, rets, result, tasks>>

\* the host invokes a registered tool: the handler runs up to its first await
Call(t, a) ==
    /\ pc = "idle"
    /\ t \in tools
    /\ LET step == Handler(HandlerModule(entry), t, a, <<>>) IN
       /\ step.kind = "fetch"
       /\ pending' = step.req
       /\ fetches' = <<step.req>>
    /\ pc' = "fetching"
    /\ tool' = t
    /\ args' = a
    /\ outcomes' = <<>>
    /\ rets' = <<>>
    /\ result' = NoResult
    /\ stdout' = <<>>
    /\ stderr' = <<>>
    /\ UNCHANGED <<entry, tools, tasks>>

\* the upstream answers the request in flight (or fails): make_request
\* returns and the handler runs on, to its next await or to its end
Respond(outcome) ==
    /\ pc = "fetching"
    /\ LET m == HandlerModule(entry)
           got == make_request(m, pending.url, outcome)
           r == Append(rets, [raised |-> got.raised, exc |-> got.exc, val |-> got.val])
           step == Handler(m, tool, args, r)
       IN  /\ outcomes' = Append(outcomes, outcome)
           /\ rets' = r
           /\ stdout' = stdout \o got.stdout
           /\ stderr' = stderr \o got.stderr
           /\ IF step.kind = "fetch"
              THEN /\ pc' = "fetching"
                   /\ pending' = step.req
                   /\ fetches' = Append(fetches, step.req)
                   /\ result' = result
              ELSE /\ pc' = "done"
                   /\ pending' = NoRequest
                   /\ fetches' = fetches
                   /\ result' = step
    /\ UNCHANGED <<entry, tools, tool, args, tasks>>

\* the result is handed to the host and the server waits for the next call
Finish ==
    /\ pc = "done"
    /\ pc' = "idle"
    /\ tool' = "none"
    /\ args' = NoArgs
    /\ fetches' = <<>>
    /\ outcomes' = <<>>
    /\ rets' = <<>>
    /\ result' = NoResult
    /\ stdout' = <<>>
    /\ stderr' = <<>>
    /\ UNCHANGED <<entry, tools, pending, tasks>>

Next ==
    \/ Startup
    \/ \E t \in AllTools : \E a \in ArgsOf(t) : Call(t, a)
    \/ \E outcome \in Outcomes(tool, Len(rets) + 1) : Respond(outcome)
    \/ Finish

Spec == Init /\ [][Next]_vars

----------------------------------------------------------------------------
(* Concurrent invocations *)
\* The handlers are coroutines: the event loop can start an invocation while
\* others wait for their fetches.  Every task has its own frame (arguments,
\* locals); the process has one stdout and one stderr.

\* the values make_request has returned to task i: the locals of another
\* frame (one module-level variable written by every task)
LocalsOf_module_level(i) == tasks[1].rets

\* the values make_request has returned to task i, held in the locals of its
\* frame (`geo_data`, `weather_data`, `data`)
LocalsOf(i) == tasks[i].rets

\* the host invokes a registered tool while other invocations may be in
\* flight: the handler runs up to its first await
Dispatch(i, t, a) ==
    /\ pc = "idle"
    /\ tasks[i].pc = "idle"
    /\ t \in tools
    /\ LET step == Handler(HandlerModule(entry), t, a, <<>>) IN
       /\ step.kind = "fetch"
       /\ tasks' = [tasks EXCEPT ![i] =
                       [pc |-> "fetching", tool |-> t, args |-> a,
                        fetches |-> <<step.req>>, outcomes |-> <<>>, rets |-> <<>>,
                        result |-> NoResult]]
    /\ UNCHANGED <<entry, tools, pc, tool, args, pending, fetches, outcomes, rets,
                   result, stdout, stderr>>

\* the upstream answers the request of task i (or fails): make_request
\* computes its return value, prints its diagnostic, and waits for the
\* client to close (the end of `async with`)
Complete(i, outcome) ==
    /\ tasks[i].pc = "fetching"
    /\ LET task == tasks[i]
           got == make_request(HandlerModule(entry),
                               task.fetches[Len(task.fetches)].url, outcome)
       IN  /\ tasks' = [tasks EXCEPT ![i] =
                           [task EXCEPT !.pc = "returning",
                                        !.outcomes = Append(task.outcomes, outcome),
                                        !.rets = Append(task.rets,
                                            [raised |-> got.raised, exc |-> got.exc,
                                             val |-> got.val])]]
           /\ stdout' = stdout \o got.stdout
           /\ stderr' = stderr \o got.stderr
    /\ UNCHANGED <<entry, tools, pc, tool, args, pending, fetches, outcomes, rets,
                   result>>

\* make_request returns to the handler of task i, which runs on to its next
\* await or to its end
Resume(i) ==
    /\ tasks[i].pc = "returning"
    /\ LET task == tasks[i]
           step == Handler(HandlerModule(entry), task.tool, task.args, LocalsOf(i))
       IN  tasks' = [tasks EXCEPT ![i] =
                        IF step.kind = "fetch"
                        THEN [task EXCEPT !.pc = "fetching",
                                          !.fetches = Append(task.fetches, step.req)]
                        ELSE [task EXCEPT !.pc = "done", !.result = step]]
    /\ UNCHANGED <<entry, tools, pc, tool, args, pending, fetches, outcomes, rets,
                   result, stdout, stderr>>

NextConcurrent ==
    \/ Startup
    \/ \E i \in Slots : \E t \in AllTools : \E a \in TaskArgsOf(t) : Dispatch(i, t, a)
    \/ \E i \in Slots :
          \E outcome \in TaskOutcomes(tasks[i].tool, Len(tasks[i].rets) + 1) :
             Complete(i, outcome)
    \/ \E i \in Slots : Resume(i)

SpecConcurrent == Init /\ [][NextConcurrent]_vars

----------------------------------------------------------------------------
(* Vocabulary of the properties *)

Done == pc = "done"
Returned == Done /\ result.kind = "return"
Raised == Done /\ result.kind = "raise"

\* the n-th fetch of the current invocation has completed, with a transport failure
FetchFailed(n) == n \in 1..Len(outcomes) /\ outcomes[n].kind \in TransportFailures

\* the n-th fetch of the current invocation has completed with a JSON body
FetchAnswered(n) == n \in 1..Len(outcomes) /\ outcomes[n].kind = "ok"

\* the fallback texts the specification gives each handler for a failed fetch
FallbacksOf(t, n, a) ==
    CASE t = "get_weather_by_city" ->
            IF n = 1 THEN {<<"Unable to find location for '">> \o a.city \o <<"'.">>}
            ELSE {<<"Unable to fetch current weather for ">> \o a.city \o <<".">>}
      [] t = "get_precipitation_chance" ->
            {<<"Unable to fetch precipitation forecast.">>,
             <<"Unable to fetch precipitation data.">>}
      [] t = "get_air_quality" -> {<<"Unable to fetch air quality data.">>}
      [] t = "get_alerts_by_type" ->
            {<<"Unable to fetch alerts for ">> \o a.state \o <<".">>,
             <<"Unable to fetch alerts for ">> \o upper(a.state) \o <<".">>}

----------------------------------------------------------------------------
(* C1 *)

\* C1: whenever a fetch of an invocation ends in a transport failure (timeout,
\* non-2xx status, network error, unparsable body), make_request hands None to
\* the handler without raising, the invocation ends there, and it ends by
\* returning the handler's fallback text for that fetch, not by an exception.
C1_FailedFetchGivesFallback ==
    \A n \in 1..Len(outcomes) :
        FetchFailed(n) =>
            /\ ~rets[n].raised
            /\ rets[n].val = Null
            /\ n = Len(outcomes)
            /\ Returned
            /\ result.text \in FallbacksOf(tool, n, args)

\* an invocation of get_weather_by_city whose second fetch timed out has returned
C1_Witness ==
    /\ Returned
    /\ tool = "get_weather_by_city"
    /\ FetchFailed(2)

----------------------------------------------------------------------------
(* C2 *)

\* C2: every handler invocation ends by returning a string, whatever JSON the
\* upstream answered with: no invocation ends by raising.
C2_AlwaysReturnsString == Done => result.kind = "return"

----------------------------------------------------------------------------
(* C3 *)

\* the geocoding answer was a failure, or a body without `results`, or a body
\* whose `results` is the empty list
NoGeocodeHit ==
    /\ tool = "get_weather_by_city"
    /\ Len(outcomes) >= 1
    /\ \/ outcomes[1].kind \in TransportFailures
       \/ "results" \notin DOMAIN outcomes[1].body.f
       \/ outcomes[1].body.f.results = Arr(<<>>)

\* C3: when the geocoding fetch fails, or answers without a `results` key or
\* with an empty `results` list, get_weather_by_city issues no further fetch
\* and returns exactly "Unable to find location for '{city}'." with the city
\* as it was passed in.
C3_UnableToFindLocation ==
    NoGeocodeHit =>
        /\ Returned
        /\ Len(fetches) = 1
        /\ result.text = <<"Unable to find location for '">> \o args.city \o <<"'.">>

\* the geocoder answered with an empty `results` list for a city that
\* title-casing would change
C3_Witness ==
    /\ Returned
    /\ tool = "get_weather_by_city"
    /\ FetchAnswered(1)
    /\ "results" \in DOMAIN outcomes[1].body.f
    /\ outcomes[1].body.f.results = Arr(<<>>)
    /\ title(args.city) # args.city

----------------------------------------------------------------------------
(* Reading a returned text *)

\* the pieces of `text` between the occurrences of the piece `sep`
RECURSIVE SplitOn(_, _)
SplitOn(text, sep) ==
    IF \A i \in 1..Len(text) : text[i] # sep THEN <<text>>
    ELSE LET k == CHOOSE i \in 1..Len(text) :
                      text[i] = sep /\ \A j \in 1..(i - 1) : text[j] # sep
         IN  <<SubSeq(text, 1, k - 1)>> \o SplitOn(SubSeq(text, k + 1, Len(text)), sep)

\* the lines of a text; the empty text has none
Lines(text) == IF text = <<>> THEN <<>> ELSE SplitOn(text, "\n")

\* the body the upstream answered the first fetch with
Body1 == outcomes[1].body

----------------------------------------------------------------------------
(* C4 *)

IsForecastLine(line) == line # <<>> /\ line[Len(line)] = "% chance of precipitation"
ForecastLines(text) == SelectSeq(Lines(text), IsForecastLine)

\* the list under `key` of the daily object, empty when the key is absent
DailyList(daily, key) == IF key \in DOMAIN daily.f THEN daily.f[key].a ELSE <<>>

GotDaily ==
    /\ tool = "get_precipitation_chance"
    /\ FetchAnswered(1)
    /\ "daily" \in DOMAIN Body1.f

\* C4: given a response with a `daily` object, get_precipitation_chance
\* returns a text with exactly one forecast line per entry of daily.time, in
\* upstream order, the i-th being
\* "{daily.time[i]}: {daily.precipitation_probability_max[i]}% chance of precipitation".
C4_OneLinePerDay ==
    GotDaily =>
        LET time == DailyList(Body1.f.daily, "time")
            probs == DailyList(Body1.f.daily, "precipitation_probability_max")
        IN  /\ Returned
            /\ Len(ForecastLines(result.text)) = Len(time)
            /\ \A i \in 1..Len(time) :
                  /\ i <= Len(probs)
                  /\ ForecastLines(result.text)[i] =
                        format(time[i]) \o <<": ">> \o format(probs[i])
                        \o <<"% chance of precipitation">>

\* when daily.time is present and the probability array has an entry for each
\* of its indices, the handler returns and its forecast lines are as C4 says
OneLinePerDayWhenIndicesValid ==
    (/\ GotDaily
     /\ "time" \in DOMAIN Body1.f.daily.f
     /\ Len(DailyList(Body1.f.daily, "time"))
            <= Len(DailyList(Body1.f.daily, "precipitation_probability_max"))
     /\ \/ "precipitation_probability_max" \in DOMAIN Body1.f.daily.f
        \/ HandlerModule(entry) # WEATHER)
        => C4_OneLinePerDay

----------------------------------------------------------------------------
(* C5 *)

SameLetter(c, d) ==
    \/ c = d
    \/ c \in DOMAIN LowerOf /\ LowerOf[c] = d
    \/ d \in DOMAIN LowerOf /\ LowerOf[d] = c

\* needle occurs in hay as a substring, letter case ignored
CaseInsensitiveContains(hay, needle) ==
    \E i \in 0..(Len(hay) - Len(needle)) :
        \A j \in 1..Len(needle) : SameLetter(hay[i + j], needle[j])

HasEvent(feature) ==
    /\ "properties" \in DOMAIN feature.f
    /\ feature.f.properties.t = "obj"
    /\ "event" \in DOMAIN feature.f.properties.f
    /\ feature.f.properties.f.event.t = "str"

\* properties.event of a feature; a feature that has none is read as having
\* the empty event
EventOf(feature) == IF HasEvent(feature) THEN feature.f.properties.f.event.s ELSE <<>>

GotFeatures ==
    /\ tool = "get_alerts_by_type"
    /\ FetchAnswered(1)
    /\ "features" \in DOMAIN Body1.f
    /\ Body1.f.features.t = "arr"

\* the upstream features whose event contains event_type, in upstream order
MatchingFeatures ==
    LET Test(feature) == CaseInsensitiveContains(EventOf(feature), args.event_type)
    IN  SelectSeq(Body1.f.features.a, Test)

\* the blocks of a returned text: what stands between the "---" of the separators
Blocks(text) == SplitOn(text, "---")

IsEventLine(line) == line # <<>> /\ line[1] = "Event: "
EventLines(text) == SelectSeq(Lines(text), IsEventLine)

\* C5: get_alerts_by_type returns one block for each upstream feature whose
\* properties.event contains event_type case-insensitively, no block for any
\* other feature, the blocks in upstream order and joined by "\n---\n".
C5_BlocksOfMatchingFeatures ==
    GotFeatures =>
        /\ Returned
        /\ Len(EventLines(result.text)) = Len(MatchingFeatures)
        /\ MatchingFeatures # <<>> =>
              LET blocks == Blocks(result.text) IN
              /\ Len(blocks) = Len(MatchingFeatures)
              /\ \A i \in 1..Len(blocks) :
                    /\ Len(EventLines(blocks[i])) = 1
                    /\ Tail(EventLines(blocks[i])[1]) \in
                          IF HasEvent(MatchingFeatures[i])
                          THEN {EventOf(MatchingFeatures[i])}
                          ELSE {<<>>, <<"Unknown">>}
              /\ \A k \in 1..Len(result.text) :
                    result.text[k] = "---" =>
                        /\ 1 < k /\ k < Len(result.text)
                        /\ result.text[k - 1] = "\n" /\ result.text[k + 1] = "\n"

\* a feature as the alerts endpoint documents it: a properties object whose
\* event is a string and whose description, when present, is a string
WellFormedFeature(feature) ==
    /\ HasEvent(feature)
    /\ "description" \in DOMAIN feature.f.properties.f =>
          feature.f.properties.f.description.t = "str"

\* on the feature lists made of well-formed features only, the handler returns
\* and its blocks are those of the matching features
BlocksOfWellFormedFeatures ==
    (GotFeatures /\ \A i \in 1..Len(Body1.f.features.a) :
                        WellFormedFeature(Body1.f.features.a[i]))
        => C5_BlocksOfMatchingFeatures

----------------------------------------------------------------------------
(* C6 *)

MetricLabels == <<"PM2.5: ", "PM10: ", "CO: ", "NO₂: ", "O₃: ">>
MetricFields == <<"pm2_5", "pm10", "carbon_monoxide", "nitrogen_dioxide", "ozone">>

IsMetricLine(line) == line # <<>> /\ \E i \in 1..5 : line[1] = MetricLabels[i]
MetricLines(text) == SelectSeq(Lines(text), IsMetricLine)

GotCurrentAirQuality ==
    /\ tool = "get_air_quality"
    /\ FetchAnswered(1)
    /\ "current" \in DOMAIN Body1.f
    /\ Body1.f.current.t = "obj"

\* C6: given a response with a `current` object, get_air_quality returns a
\* text with exactly five metric lines, labelled PM2.5, PM10, CO, NO2, O3 in
\* this order; the line of a field the payload lacks shows N/A, the line of a
\* field the payload holds shows its value (as Python prints it).
C6_FiveMetricLines ==
    GotCurrentAirQuality =>
        /\ Returned
        /\ LET lines == MetricLines(result.text)
               current == Body1.f.current.f
           IN  /\ Len(lines) = 5
               /\ \A i \in 1..5 :
                     /\ lines[i][1] = MetricLabels[i]
                     /\ SubSeq(lines[i], 2, Len(lines[i]) - 1) =
                           IF MetricFields[i] \in DOMAIN current
                           THEN format(current[MetricFields[i]])
                           ELSE <<"N/A">>

\* a payload holding some of the five fields and lacking others
C6_Witness ==
    /\ Returned
    /\ GotCurrentAirQuality
    /\ DOMAIN Body1.f.current.f = {"pm10", "ozone"}

----------------------------------------------------------------------------
(* C7 *)

\* C7: get_alerts_by_type upper-cases `state` first: the URL requested is
\* {alerts-base}/active/area/{STATE}, and the state shown in "Unable to fetch
\* alerts for {state}." and in "No active {event_type} alerts for {state}." is
\* the upper-cased state.
C7_StateUpperCased ==
    tool = "get_alerts_by_type" =>
        /\ \A i \in 1..Len(fetches) :
              fetches[i].url =
                  <<"https://api.weather.gov", "/alerts/active/area/">> \o upper(args.state)
        /\ (Returned /\ result.text[1] = "Unable to fetch alerts for ") =>
              result.text = <<"Unable to fetch alerts for ">> \o upper(args.state) \o <<".">>
        /\ (Returned /\ result.text[1] = "No active ") =>
              result.text = <<"No active ">> \o args.event_type \o <<" alerts for ">>
                            \o upper(args.state) \o <<".">>

----------------------------------------------------------------------------
(* C8 *)

\* how the invocation of tool t with arguments a ends when its first fetch fails
ResultOnFailedFetch(t, a) ==
    LET m == HandlerModule(entry)
        req == Handler(m, t, a, <<>>).req
        got == make_request(m, req.url, Failure("timeout"))
    IN  Handler(m, t, a, <<[raised |-> got.raised, exc |-> got.exc, val |-> got.val]>>)

\* the geocoder answered, with zero hits
EmptyGeocode ==
    /\ tool = "get_weather_by_city"
    /\ FetchAnswered(1)
    /\ "results" \in DOMAIN Body1.f
    /\ Body1.f.results = Arr(<<>>)

\* the alerts endpoint answered with well-formed features, none of which matches
EmptyAlerts ==
    /\ GotFeatures
    /\ \A i \in 1..Len(Body1.f.features.a) : WellFormedFeature(Body1.f.features.a[i])
    /\ MatchingFeatures = <<>>

\* C8: an empty result is reported with another message than a failure, in
\* get_weather_by_city (zero geocoding hits against a failed geocoding fetch)
\* and in get_alerts_by_type (zero matching features against a failed fetch).
C8_EmptyDiffersFromFailure ==
    (EmptyGeocode \/ EmptyAlerts) =>
        /\ Returned
        /\ result # ResultOnFailedFetch(tool, args)

\* C8 as amended: get_alerts_by_type reports zero matching features with
\* another message than a failed fetch; get_weather_by_city reports zero
\* geocoding hits with the very message of a failed geocoding fetch.
C8_EmptyAlertsDifferOnly ==
    /\ EmptyAlerts => (Returned /\ result # ResultOnFailedFetch(tool, args))
    /\ EmptyGeocode => (Returned /\ result = ResultOnFailedFetch(tool, args))

\* a non-empty well-formed feature list without a match has been answered
C8_Witness ==
    /\ Returned
    /\ EmptyAlerts
    /\ Body1.f.features.a # <<>>

----------------------------------------------------------------------------
(* C9 *)

\* C9: the diagnostic of a failed fetch is written to stderr only: no line of
\* make_request is on stdout, the stream shared with the host, and the URL of
\* a fetch is no part of the returned text.
C9_DiagnosticsOnStderrOnly ==
    /\ \A i \in 1..Len(stdout) : stdout[i].src # "make_request"
    /\ \A n \in 1..Len(outcomes) :
          FetchFailed(n) => \E i \in 1..Len(stderr) : stderr[i] = Diagnostic(fetches[n].url, outcomes[n])
    /\ Returned =>
          \A n \in 1..Len(fetches) : \A k \in 1..Len(result.text) :
              result.text[k] # fetches[n].url[1]

----------------------------------------------------------------------------
(* C10 *)

\* C10: once an entry point has started, the tools registered with the host
\* are exactly get_weather_by_city, get_precipitation_chance, get_air_quality
\* and get_alerts_by_type.
C10_ExactlyFourTools ==
    pc # "boot" =>
        tools = {"get_weather_by_city", "get_precipitation_chance", "get_air_quality",
                 "get_alerts_by_type"}


----------------------------------------------------------------------------
(* Vocabulary of the properties on concurrent invocations *)

TaskDone(i) == tasks[i].pc = "done"
TaskReturned(i) == TaskDone(i) /\ tasks[i].result.kind = "return"
TaskAnswered(i) ==
    /\ tasks[i].outcomes # <<>>
    /\ \A n \in 1..Len(tasks[i].outcomes) : tasks[i].outcomes[n].kind = "ok"
TaskFailed(i) ==
    \E n \in 1..Len(tasks[i].outcomes) : tasks[i].outcomes[n].kind \in TransportFailures

SameInputs(i, j) ==
    /\ tasks[i].tool = tasks[j].tool
    /\ tasks[i].args = tasks[j].args
    /\ tasks[i].outcomes = tasks[j].outcomes

\* how the handler of tool t ends when it is the only invocation of the
\* process and its fetches are answered by `outs`, in order; r holds the
\* values make_request has returned so far
RECURSIVE RunAlone(_, _, _, _, _)
RunAlone(m, t, a, outs, r) ==
    LET step == Handler(m, t, a, r) IN
    IF step.kind # "fetch" \/ outs = <<>> THEN step
    ELSE LET got == make_request(m, step.req.url, Head(outs)) IN
         RunAlone(m, t, a, Tail(outs),
                  Append(r, [raised |-> got.raised, exc |-> got.exc, val |-> got.val]))

----------------------------------------------------------------------------
(* C11 *)
\* C11: two invocations of a handler with identical arguments, whose fetches
\* received identical upstream responses, end with identical results: the
\* result depends on nothing but the arguments and the responses to the
\* invocation's own fetches
C11_Deterministic ==
    \A i \in Slots : \A j \in Slots :
        TaskDone(i) /\ TaskDone(j) /\ SameInputs(i, j) =>
            tasks[i].result = tasks[j].result

\* two invocations of the precipitation handler have returned after the same
\* answered fetch
C11_Witness ==
    /\ TaskReturned(1) /\ TaskReturned(2) /\ SameInputs(1, 2)
    /\ tasks[1].tool = "get_precipitation_chance"
    /\ TaskAnswered(1)

----------------------------------------------------------------------------
(* C12 *)

Min(x, y) == IF x <= y THEN x ELSE y

\* the upstream answered with a `daily` object whose `time` list and
\* probability list differ in length, the probability list possibly absent
GotMismatchedDaily ==
    /\ GotDaily
    /\ "time" \in DOMAIN Body1.f.daily.f
    /\ Len(DailyList(Body1.f.daily, "time"))
          # Len(DailyList(Body1.f.daily, "precipitation_probability_max"))

\* C12: when daily.time and daily.precipitation_probability_max differ in
\* length (the probability array may be missing), get_precipitation_chance
\* does not fault: it returns a text whose forecast lines are those of the
\* indices valid in both arrays, and no more
C12_StopsAtShorterArray ==
    GotMismatchedDaily =>
        LET time == DailyList(Body1.f.daily, "time")
            probs == DailyList(Body1.f.daily, "precipitation_probability_max")
            n == Min(Len(time), Len(probs))
        IN  /\ Returned
            /\ Len(ForecastLines(result.text)) = n
            /\ \A i \in 1..n :
                  ForecastLines(result.text)[i] =
                      format(time[i]) \o <<": ">> \o format(probs[i])
                      \o <<"% chance of precipitation">>

\* the handler stops at the shorter bound only when the shorter array is
\* daily.time
StopsAtTimeWhenShorter ==
    (/\ GotMismatchedDaily
     /\ Len(DailyList(Body1.f.daily, "time"))
           < Len(DailyList(Body1.f.daily, "precipitation_probability_max")))
        => C12_StopsAtShorterArray

\* whenever the probability array is the shorter one the handler raises
RaisesWhenProbabilitiesShorter ==
    (/\ GotMismatchedDaily
     /\ Len(DailyList(Body1.f.daily, "time"))
           > Len(DailyList(Body1.f.daily, "precipitation_probability_max")))
        => Raised /\ result.exc \in {"IndexError", "KeyError"}

----------------------------------------------------------------------------
(* C13 *)

\* the `results` list of the geocoding answer, empty when there is none
GeocodeResults ==
    IF /\ FetchAnswered(1)
       /\ "results" \in DOMAIN Body1.f
       /\ Body1.f.results.t = "arr"
    THEN Body1.f.results.a ELSE <<>>

IsGeocodeFetch(req) == req.url = geocode_url
IsForecastFetch(req) == req.url = OPEN_METEO_BASE

\* C13: in get_weather_by_city the geocoding fetch is the first fetch and is
\* issued exactly once; the forecast fetch is issued at most once, only after
\* the geocoding fetch has returned a non-empty `results` list, and with the
\* latitude and longitude of the first result; when geocoding fails or is
\* empty no forecast fetch is issued; at most one fetch is in flight and no
\* fetch is repeated
C13_SequentialFetches ==
    tool = "get_weather_by_city" =>
        /\ Len(fetches) \in {1, 2}
        /\ Len(fetches) <= Len(outcomes) + 1
        /\ fetches[1].url = geocode_url
        /\ fetches[1].params = Obj([name |-> Str(args.city), count |-> Num(1)])
        /\ \A n \in 2..Len(fetches) : ~IsGeocodeFetch(fetches[n])
        /\ Len(fetches) = 2 =>
              /\ GeocodeResults # <<>>
              /\ IsForecastFetch(fetches[2])
              /\ "latitude" \in DOMAIN GeocodeResults[1].f
              /\ "longitude" \in DOMAIN GeocodeResults[1].f
              /\ fetches[2].params.f.latitude = GeocodeResults[1].f.latitude
              /\ fetches[2].params.f.longitude = GeocodeResults[1].f.longitude
        /\ NoGeocodeHit => Len(fetches) = 1
        /\ Done /\ Len(outcomes) = 2 => Len(fetches) = 2

\* a step of an invocation of get_weather_by_city issues at most one fetch
\* and never takes back or repeats one already issued
C13_NoRetry ==
    [][tool = "get_weather_by_city" /\ tool' = tool =>
          /\ Len(fetches') <= Len(fetches) + 1
          /\ SubSeq(fetches', 1, Len(fetches)) = fetches
          /\ \A n \in 1..Len(fetches) :
                Len(fetches') > Len(fetches) => fetches'[Len(fetches')] # fetches[n]]_vars

\* the forecast fetch was issued after a geocoding answer with two results,
\* and has failed: the invocation is over after two fetches
C13_Witness ==
    /\ Done
    /\ tool = "get_weather_by_city"
    /\ Len(fetches) = 2
    /\ Len(GeocodeResults) = 2
    /\ FetchFailed(2)

----------------------------------------------------------------------------
(* C14 *)

\* C14: whatever other invocations are in flight, and however their fetch
\* suspensions and completions interleave, an invocation ends with the result
\* it would have when run alone with the same arguments and the same upstream
\* answers to its own fetches; a failed or slow fetch of another invocation
\* does not change it
C14_SameAsAlone ==
    \A i \in Slots :
        TaskDone(i) =>
            tasks[i].result =
                RunAlone(HandlerModule(entry), tasks[i].tool, tasks[i].args,
                         tasks[i].outcomes, <<>>)

\* an invocation of get_weather_by_city has returned its report after two
\* answered fetches, and the fetch of another invocation of the process,
\* dispatched to another tool, has failed and left its diagnostic
C14_Witness ==
    /\ TaskReturned(1)
    /\ tasks[1].tool = "get_weather_by_city"
    /\ Len(tasks[1].outcomes) = 2
    /\ TaskAnswered(1)
    /\ tasks[2].tool = "get_air_quality"
    /\ TaskFailed(2)
    /\ stderr # <<>> \/ stdout # <<>>

----------------------------------------------------------------------------
(* C15 *)

IsDescriptionLine(line) == line # <<>> /\ line[1] = "Description: "
DescriptionLines(text) == SelectSeq(Lines(text), IsDescriptionLine)

HasDescription(feature) ==
    /\ "description" \in DOMAIN feature.f.properties.f
    /\ feature.f.properties.f.description.t = "str"
DescriptionOf(feature) == feature.f.properties.f.description.s

\* C15: in every variant of get_alerts_by_type, the block of a matching
\* feature carries the upstream description in full, whatever its length:
\* it is not truncated and nothing is appended to it
C15_DescriptionInFull ==
    GotFeatures /\ Returned =>
        \A i \in 1..Len(MatchingFeatures) :
            HasDescription(MatchingFeatures[i]) =>
                /\ i <= Len(Blocks(result.text))
                /\ DescriptionLines(Blocks(result.text)[i]) =
                      << <<"Description: ">> \o DescriptionOf(MatchingFeatures[i]) >>

\* weather/weather.py (and the launcher, which runs its handlers) gives the
\* description in full
DescriptionInFullInWeatherModule ==
    HandlerModule(entry) = WEATHER => C15_DescriptionInFull

\* the other modules give the first DescriptionLimit characters of the
\* description followed by "...", also when the description is shorter
DescriptionCutElsewhere ==
    GotFeatures /\ Returned /\ HandlerModule(entry) # WEATHER =>
        \A i \in 1..Len(MatchingFeatures) :
            HasDescription(MatchingFeatures[i]) =>
                LET d == DescriptionOf(MatchingFeatures[i]) IN
                DescriptionLines(Blocks(result.text)[i]) =
                    << <<"Description: ">>
                       \o SubSeq(d, 1, Min(Len(d), DescriptionLimit)) \o <<"...">> >>

====
